---- MODULE Spec2Model ----
(***************************************************************************)
(* Windowing and position-tracking engine of react-smartlist: the reducer  *)
(* based VirtualList (src/unnamed/part_006, lines 435-811).                *)
(*                                                                         *)
(* Indexes are 0-based as in the source; the i-th element of a JavaScript  *)
(* array is element i+1 of the sequence that models it.  Numbers are       *)
(* integers plus the value NaN; reading an array past its end yields       *)
(* `undefined`, which every arithmetic use turns into NaN.                 *)
(***************************************************************************)
EXTENDS Integers, Sequences, FiniteSets

\* ------------------------------------------------------------------ bounds
MaxItems == 2
MaxHeight == 2
InnerHeight == 1

Heights == 1..MaxHeight
Reports == 0..MaxHeight
Estimates == {1, 2}
Paddings == {0, 1}
Offsets == {0, 1}
Viewports == 0..(InnerHeight + 1)
MaxListHeight == MaxItems * MaxHeight
Scrolls == (0 - InnerHeight - 1)..(MaxListHeight + 1)

\* ----------------------------------------------------- JavaScript numbers
NaN == -1000000

IsNaN(x) == x = NaN
Plus(a, b) == IF IsNaN(a) \/ IsNaN(b) THEN NaN ELSE a + b
Minus(a, b) == IF IsNaN(a) \/ IsNaN(b) THEN NaN ELSE a - b
Le(a, b) == ~IsNaN(a) /\ ~IsNaN(b) /\ a <= b
Lt(a, b) == ~IsNaN(a) /\ ~IsNaN(b) /\ a < b
StrictEq(a, b) == ~IsNaN(a) /\ ~IsNaN(b) /\ a = b
MathMin(a, b) == IF IsNaN(a) \/ IsNaN(b) THEN NaN ELSE IF a < b THEN a ELSE b
MathMax(a, b) == IF IsNaN(a) \/ IsNaN(b) THEN NaN ELSE IF a > b THEN a ELSE b

\* arr[i] of a number array: `undefined` (NaN in arithmetic) outside 0..length-1
At(arr, i) == IF ~IsNaN(i) /\ 0 <= i /\ i < Len(arr) THEN arr[i + 1] ELSE NaN

\* arr.slice(0, end)
Slice0(arr, end) == SubSeq(arr, 1, IF end < Len(arr) THEN end ELSE Len(arr))

\* ------------------------------------------------------------- item lists
RECURSIVE Asc(_)
Asc(n) == IF n = 0 THEN <<>> ELSE Append(Asc(n - 1), n)
RECURSIVE Desc(_)
Desc(n) == IF n = 0 THEN <<>> ELSE Append(Desc(n - 1), MaxItems + 1 - n)

\* the `items` props the parent may pass: ids are unique within a list
ItemLists == {Asc(n) : n \in 0..MaxItems} \cup {Desc(n) : n \in 1..MaxItems}

VARIABLES
    state,      \* TState: items (as the sequence of the items' ids),
                \* estimatedItemHeight, overscanPadding, heightCache (a function
                \* from the measured ids), isInView, nailPoints, listHeight,
                \* firstIndex, lastIndex
    scrollTop,  \* document.documentElement.scrollTop
    edges,      \* the window edges the reducer computed last
    last,       \* the label of the last step
    initDone,   \* the mount effect has dispatched { type: 'init' }
    error,      \* the reducer threw while rendering: React unmounts the list
    row         \* one VirtualListItem: its props, refs, effects, the scheduler's
                \* tasks and the ResizeObservers it created

vars == <<state, scrollTop, edges, last, initDone, error, row>>

\* jsdom lays nothing out: rootElRef.current.offsetTop is 0
RootElOffsetTop == 0

\* --------------------------------------------------------- pure functions
\* const getHeight = (id) => heightCache[id] ?? estimatedItemHeight
GetHeight(cache, estimate, id) == IF id \in DOMAIN cache THEN cache[id] ELSE estimate

GetWindowEdgesNoFloor(sT, iH, lH, rootElOffsetTop, padding) ==
    LET rawTop == Minus(sT, rootElOffsetTop)
        rawBottom == Plus(rawTop, iH)
        bottom == MathMin(Plus(rawBottom, padding), lH)
        top == MathMax(0, MathMin(Minus(rawTop, padding), bottom))
    IN [isInView |-> ~StrictEq(bottom, top), top |-> top, bottom |-> bottom,
        rawTop |-> rawTop, rawBottom |-> rawBottom, listHeight |-> lH]
GetWindowEdgesPaddingInward(sT, iH, lH, rootElOffsetTop, padding) ==
    LET rawTop == Minus(sT, rootElOffsetTop)
        rawBottom == Plus(rawTop, iH)
        bottom == MathMax(0, MathMin(Minus(rawBottom, padding), lH))
        top == MathMax(0, MathMin(Plus(rawTop, padding), bottom))
    IN [isInView |-> ~StrictEq(bottom, top), top |-> top, bottom |-> bottom,
        rawTop |-> rawTop, rawBottom |-> rawBottom, listHeight |-> lH]
\* getWindowEdges; sT is document.documentElement.scrollTop, iH window.innerHeight
GetWindowEdges(sT, iH, lH, rootElOffsetTop, padding) ==
    LET rawTop == Minus(sT, rootElOffsetTop)
        rawBottom == Plus(rawTop, iH)
        bottom == MathMax(0, MathMin(Plus(rawBottom, padding), lH))
        top == MathMax(0, MathMin(Minus(rawTop, padding), bottom))
    IN [isInView |-> ~StrictEq(bottom, top), top |-> top, bottom |-> bottom,
        rawTop |-> rawTop, rawBottom |-> rawBottom, listHeight |-> lH]

IsVisibleStrict(e, nP, height) == Lt(e.top, Plus(nP, height)) /\ Lt(nP, e.bottom)
\* getWindowEdges(listHeight, state.rootElRef.current?.offsetTop, padding) for
\* a ref that holds an element (attached) or null: the offset of a missing
\* element is undefined and the parameter takes its default, 0
WindowEdgesOf(ref, sT, iH, lH, padding) ==
    [threw |-> FALSE,
     edges |-> GetWindowEdges(sT, iH, lH, IF ref.attached THEN ref.offsetTop ELSE 0,
                              padding)]

\* the intersection test of isIndexVisible
IsVisible(e, nP, height) == Le(e.top, Plus(nP, height)) /\ Le(nP, e.bottom)

IsIndexVisibleStopsAtMiss(i, acc, e, nPs, its, cache, estimate) ==
    IF ~IsVisible(e, At(nPs, i), GetHeight(cache, estimate, its[i + 1]))
    THEN [acc EXCEPT !.go = FALSE]
    ELSE [go |-> TRUE,
          firstIndex |-> IF IsNaN(acc.firstIndex) \/ i < acc.firstIndex
                         THEN i ELSE acc.firstIndex,
          lastIndex |-> IF IsNaN(acc.firstIndex) \/ i > acc.lastIndex
                        THEN i ELSE acc.lastIndex]
\* one call of the closure isIndexVisible: acc holds firstIndex and lastIndex,
\* go is the value returned to the loop condition
IsIndexVisible(i, acc, e, nPs, its, cache, estimate) ==
    LET isStillNotFound == IsNaN(acc.firstIndex)
    IN IF ~IsVisible(e, At(nPs, i), GetHeight(cache, estimate, its[i + 1]))
       THEN [acc EXCEPT !.go = isStillNotFound]
       ELSE [go |-> TRUE,
             firstIndex |-> IF isStillNotFound \/ i < acc.firstIndex THEN i ELSE acc.firstIndex,
             lastIndex |-> IF isStillNotFound \/ i > acc.lastIndex THEN i ELSE acc.lastIndex]

\* for (let i = pivot; i >= 0 && isIndexVisible(i); i--)
RECURSIVE ScanDown(_, _, _, _, _, _, _)
ScanDown(i, acc, e, nPs, its, cache, estimate) ==
    IF IsNaN(i) \/ i < 0 THEN acc
    ELSE LET r == IsIndexVisible(i, acc, e, nPs, its, cache, estimate)
         IN IF r.go THEN ScanDown(i - 1, r, e, nPs, its, cache, estimate) ELSE r

\* for (let i = pivot + 1; i < items.length && isIndexVisible(i); i++)
RECURSIVE ScanUp(_, _, _, _, _, _, _)
ScanUp(i, acc, e, nPs, its, cache, estimate) ==
    IF IsNaN(i) \/ i >= Len(its) THEN acc
    ELSE LET r == IsIndexVisible(i, acc, e, nPs, its, cache, estimate)
         IN IF r.go THEN ScanUp(i + 1, r, e, nPs, its, cache, estimate) ELSE r

\* getVisibleIndexes: has = FALSE when only { isInView } is returned
GetVisibleIndexes(pivot, e, nPs, its, cache, estimate) ==
    IF ~e.isInView
    THEN [isInView |-> FALSE, has |-> FALSE, firstIndex |-> NaN, lastIndex |-> NaN]
    ELSE LET none == [go |-> TRUE, firstIndex |-> NaN, lastIndex |-> NaN]
             down == ScanDown(pivot, none, e, nPs, its, cache, estimate)
             up == ScanUp(Plus(pivot, 1), down, e, nPs, its, cache, estimate)
         IN [isInView |-> TRUE, has |-> TRUE,
             firstIndex |-> up.firstIndex, lastIndex |-> up.lastIndex]

\* the pivots for which getVisibleIndexes reads items[i].id of a missing item
ScanThrows(pivot, e, its) ==
    e.isInView /\ ~IsNaN(pivot) /\ (pivot >= Len(its) \/ pivot < -1)

\* the loop of rebuildNailPoints: push(nailPoints[i] + getHeight(items[i].id))
RECURSIVE PushNailPoints(_, _, _, _, _)
PushNailPoints(nPs, i, its, cache, estimate) ==
    IF i >= Len(its) - 1 THEN nPs
    ELSE PushNailPoints(
             Append(nPs, Plus(At(nPs, i), GetHeight(cache, estimate, its[i + 1]))),
             i + 1, its, cache, estimate)

RebuildNailPointsShortSlice(start, prevNailPoints, its, cache, estimate) ==
    LET nPs == PushNailPoints(Slice0(prevNailPoints, start), start, its, cache, estimate)
        lastI == MathMax(0, Len(its) - 1)
    IN [nailPoints |-> nPs,
        listHeight |-> Plus(At(nPs, lastI), GetHeight(cache, estimate, its[lastI + 1]))]
RebuildNailPointsNoLastHeight(start, prevNailPoints, its, cache, estimate) ==
    LET nPs == PushNailPoints(Slice0(prevNailPoints, start + 1), start, its, cache, estimate)
        lastI == MathMax(0, Len(its) - 1)
    IN [nailPoints |-> nPs, listHeight |-> At(nPs, lastI)]
\* rebuildNailPoints, for a non-empty `items` (items[last].id throws otherwise)
RebuildNailPoints(start, prevNailPoints, its, cache, estimate) ==
    LET nPs == PushNailPoints(Slice0(prevNailPoints, start + 1), start, its, cache, estimate)
        lastI == MathMax(0, Len(its) - 1)
    IN [nailPoints |-> nPs,
        listHeight |-> Plus(At(nPs, lastI), GetHeight(cache, estimate, its[lastI + 1]))]

\* if (heightCache[items[i].id]): the id has a cached, non-zero height
IsCached(cache, id) == id \in DOMAIN cache /\ cache[id] # 0 /\ ~IsNaN(cache[id])

\* the loop of getPivotIndex
RECURSIVE PivotFrom(_, _, _, _, _)
PivotFrom(i, lastI, index, its, cache) ==
    IF IsNaN(i) \/ IsNaN(lastI) \/ i > lastI THEN index
    ELSE IF IsCached(cache, its[i + 1]) THEN i
    ELSE PivotFrom(i + 1, lastI, index, its, cache)

GetPivotIndexFirst(first, lastI, its, cache, offset) == first
GetPivotIndexNoOffset(first, lastI, its, cache, offset) ==
    PivotFrom(first, lastI, first, its, cache)
\* getPivotIndex(first, last, items, heightCache, offset)
GetPivotIndex(first, lastI, its, cache, offset) ==
    PivotFrom(Plus(first, offset), lastI, first, its, cache)

\* getPivotIndex reads items[i].id of a missing item: some index it visits
\* before it stops lies outside the array
PivotThrows(first, lastI, its, cache, offset) ==
    /\ ~IsNaN(first) /\ ~IsNaN(lastI)
    /\ \E i \in (first + offset)..lastI :
          /\ (i < 0 \/ i >= Len(its))
          /\ \A j \in (first + offset)..(i - 1) :
                j >= 0 /\ j < Len(its) /\ ~IsCached(cache, its[j + 1])

ClampIntoArrRangeNot(arr, value) == value
\* clampIntoArrRange(arr, value)
ClampIntoArrRange(arr, value) == MathMax(0, MathMin(value, Len(arr) - 1))

\* ---------------------------------------------------------------- reducer
NoEdges == [isInView |-> FALSE, top |-> NaN, bottom |-> NaN,
            rawTop |-> NaN, rawBottom |-> NaN, listHeight |-> NaN]

\* what one call of the reducer yields: the returned state, the host's
\* scrollTop after it, the window edges it computed (e, or the previous ones),
\* whether it threw, whether it returned the very object it was given,
\* whether it wrote scrollTop, and the pivot it used
Result(st, sT, e, same, compensated, pivotIndex) ==
    [state |-> st, scrollTop |-> sT, edges |-> e, threw |-> FALSE,
     same |-> same, compensated |-> compensated, pivotIndex |-> pivotIndex]

ThrownSwallowed(st, sT, e) ==
    [state |-> st, scrollTop |-> sT, edges |-> e, threw |-> FALSE,
     same |-> TRUE, compensated |-> FALSE, pivotIndex |-> NaN]
\* the reducer threw: nothing is returned, the state and the host are as before
Thrown(st, sT, e) ==
    [state |-> st, scrollTop |-> sT, edges |-> e, threw |-> TRUE,
     same |-> TRUE, compensated |-> FALSE, pivotIndex |-> NaN]

WithIndexesAnchored(st, ix) ==
    IF ix.has
    THEN [st EXCEPT !.isInView = ix.isInView, !.firstIndex = ix.firstIndex,
                    !.lastIndex = ix.lastIndex]
    ELSE [st EXCEPT !.isInView = ix.isInView, !.firstIndex = 0, !.lastIndex = 0]
\* { ...state, ...indexes }
WithIndexes(st, ix) ==
    IF ix.has
    THEN [st EXCEPT !.isInView = ix.isInView, !.firstIndex = ix.firstIndex,
                    !.lastIndex = ix.lastIndex]
    ELSE [st EXCEPT !.isInView = ix.isInView]

\* shallowEqualObjects(state, nextState), for states that differ at most in
\* isInView, firstIndex and lastIndex: the fields are compared with !==
ShallowEqualObjects(a, b) ==
    /\ a.isInView = b.isInView
    /\ StrictEq(a.firstIndex, b.firstIndex)
    /\ StrictEq(a.lastIndex, b.lastIndex)

\* reducer, action.type === 'scroll' || action.type === 'init'
ReduceScroll(st, sT, prevEdges) ==
    IF Len(st.items) = 0 THEN Result(st, sT, prevEdges, TRUE, FALSE, NaN)
    ELSE LET e == GetWindowEdges(sT, InnerHeight, st.listHeight, RootElOffsetTop,
                                 st.overscanPadding)
             ix == GetVisibleIndexes(st.firstIndex, e, st.nailPoints, st.items,
                                     st.heightCache, st.estimatedItemHeight)
             nextState == WithIndexes(st, ix)
         IN IF ScanThrows(st.firstIndex, e, st.items) THEN Thrown(st, sT, prevEdges)
            ELSE Result(nextState, sT, e, ShallowEqualObjects(st, nextState), FALSE,
                        st.firstIndex)

PutHeightAlone(cache, id, height) == [k \in {id} |-> height]
\* heightCache = { ...state.heightCache, [entryID]: entryHeight }
PutHeight(cache, id, height) ==
    [k \in DOMAIN cache \cup {id} |-> IF k = id THEN height ELSE cache[k]]

IsSameHeightNever(cache, entryID, entryHeight) == FALSE
\* if (state.heightCache[entryID] === entryHeight) return state
IsSameHeight(cache, entryID, entryHeight) ==
    entryID \in DOMAIN cache /\ StrictEq(cache[entryID], entryHeight)

IsChangingAtOrAbovePivot(entryIndex, pivotIndex, lastI) ==
    Le(entryIndex, pivotIndex) \/ Le(lastI, pivotIndex)
\* isChangingAbovePivot
IsChangingAbovePivot(entryIndex, pivotIndex, lastI) ==
    Lt(entryIndex, pivotIndex) \/ Le(lastI, pivotIndex)

\* isListShrinking
IsListShrinking(lH, prevListHeight) == Lt(lH, prevListHeight)

\* the pivot of a measure: getPivotIndex with offset 1 when the entry is firstIndex
MeasurePivot(st, entryIndex) ==
    GetPivotIndex(st.firstIndex, st.lastIndex, st.items, st.heightCache,
                  IF StrictEq(entryIndex, st.firstIndex) THEN 1 ELSE 0)

CompensationFreshHeights(pivotIndex, prevNailPoints, nPs, its, prevCache, cache, estimate) ==
    LET pivotHeightDiff == Minus(GetHeight(cache, estimate, its[pivotIndex + 1]),
                                 GetHeight(cache, estimate, its[pivotIndex + 1]))
        pivotNailPointDiff == Minus(At(prevNailPoints, pivotIndex), At(nPs, pivotIndex))
    IN Plus(pivotNailPointDiff, pivotHeightDiff)
CompensationListHeight(pivotIndex, prevNailPoints, nPs, its, prevCache, cache, estimate) ==
    LET lastI == Len(its) - 1
    IN Plus(Minus(At(prevNailPoints, lastI), At(nPs, lastI)),
            Minus(GetHeight(prevCache, estimate, its[lastI + 1]),
                  GetHeight(cache, estimate, its[lastI + 1])))
CompensationHeightOnly(pivotIndex, prevNailPoints, nPs, its, prevCache, cache, estimate) ==
    Minus(GetHeight(prevCache, estimate, its[pivotIndex + 1]),
          GetHeight(cache, estimate, its[pivotIndex + 1]))
\* pivotNailPointDiff + pivotHeightDiff, the amount taken off scrollTop
Compensation(pivotIndex, prevNailPoints, nPs, its, prevCache, cache, estimate) ==
    LET pivotHeightDiff == Minus(GetHeight(prevCache, estimate, its[pivotIndex + 1]),
                                 GetHeight(cache, estimate, its[pivotIndex + 1]))
        pivotNailPointDiff == Minus(At(prevNailPoints, pivotIndex), At(nPs, pivotIndex))
    IN Plus(pivotNailPointDiff, pivotHeightDiff)

\* reducer, action.type === 'measure'; isDuplicate is what
\* isReactStrictModeDuplicate(action) returns
ReduceMeasureAction(st, sT, prevEdges, entryIndex, entryHeight, isDuplicate) ==
    IF entryIndex < 0 \/ entryIndex >= Len(st.items) THEN Thrown(st, sT, prevEdges)
    ELSE IF IsSameHeight(st.heightCache, st.items[entryIndex + 1], entryHeight)
    THEN Result(st, sT, prevEdges, TRUE, FALSE, NaN)
    ELSE
    LET its == st.items
        estimate == st.estimatedItemHeight
        cache == PutHeight(st.heightCache, its[entryIndex + 1], entryHeight)
        rb == RebuildNailPoints(entryIndex, st.nailPoints, its, cache, estimate)
        offset == IF StrictEq(entryIndex, st.firstIndex) THEN 1 ELSE 0
        pivotIndex == MeasurePivot(st, entryIndex)
        compensate == /\ ~isDuplicate
                      /\ \/ IsChangingAbovePivot(entryIndex, pivotIndex, st.lastIndex)
                         \/ IsListShrinking(rb.listHeight, st.listHeight)
        noPivotItem == IsNaN(pivotIndex) \/ pivotIndex < 0 \/ pivotIndex >= Len(its)
        newScrollTop ==
            IF compensate /\ ~noPivotItem
            THEN Minus(sT, Compensation(pivotIndex, st.nailPoints, rb.nailPoints, its,
                                        st.heightCache, cache, estimate))
            ELSE sT
        e == GetWindowEdges(newScrollTop, InnerHeight, rb.listHeight, RootElOffsetTop,
                            st.overscanPadding)
        ix == GetVisibleIndexes(pivotIndex, e, rb.nailPoints, its, cache, estimate)
    IN IF PivotThrows(st.firstIndex, st.lastIndex, its, st.heightCache, offset)
          \/ (compensate /\ noPivotItem)
       THEN Thrown(st, sT, prevEdges)
       ELSE IF ScanThrows(pivotIndex, e, its) THEN Thrown(st, newScrollTop, prevEdges)
       ELSE Result(WithIndexes([st EXCEPT !.heightCache = cache,
                                          !.nailPoints = rb.nailPoints,
                                          !.listHeight = rb.listHeight], ix),
                   newScrollTop, e, FALSE, compensate, pivotIndex)

\* the reducer's first call with a measure action: prevAction is another object
ReduceMeasure(st, sT, prevEdges, entryIndex, entryHeight) ==
    ReduceMeasureAction(st, sT, prevEdges, entryIndex, entryHeight, FALSE)

\* reducer, action.type === 'props-update'
ReducePropsUpdate(st, sT, prevEdges, newItems, newEstimate, newPadding) ==
    LET fI == ClampIntoArrRange(newItems, st.firstIndex)
        lI == ClampIntoArrRange(newItems, st.lastIndex)
        pivotIndex == GetPivotIndex(fI, lI, newItems, st.heightCache, 0)
        rb == RebuildNailPoints(0, st.nailPoints, newItems, st.heightCache, newEstimate)
        e == GetWindowEdges(sT, InnerHeight, rb.listHeight, RootElOffsetTop, newPadding)
        ix == GetVisibleIndexes(pivotIndex, e, rb.nailPoints, newItems, st.heightCache,
                                newEstimate)
    IN IF Len(newItems) = 0 \/ PivotThrows(fI, lI, newItems, st.heightCache, 0)
       THEN Thrown(st, sT, prevEdges)
       ELSE IF ScanThrows(pivotIndex, e, newItems) THEN Thrown(st, sT, prevEdges)
       ELSE Result(WithIndexes([st EXCEPT !.items = newItems,
                                          !.estimatedItemHeight = newEstimate,
                                          !.overscanPadding = newPadding,
                                          !.nailPoints = rb.nailPoints,
                                          !.listHeight = rb.listHeight,
                                          !.firstIndex = fI,
                                          !.lastIndex = lI], ix),
                   sT, e, FALSE, FALSE, pivotIndex)

\* ---------------------------------------------------------------- actions
\* the label of a step: the action's type ("throw" when the reducer threw,
\* "ignored" when handleResize dropped the report, "same" when a measure
\* returned the state it was given); for a report that reached onMeasure, its
\* index and height; for a measure that changed the state, the pivot it used,
\* whether it took the compensation branch, the change of scrollTop (delta)
\* and the change of the row's height (diff); for a props-update, the change
\* of the list's length (diff) and of overscanPadding (delta)
Step(type) == [type |-> type, index |-> NaN, height |-> NaN, pivotIndex |-> NaN,
               compensated |-> FALSE, delta |-> 0, diff |-> 0]

\* no VirtualListItem is followed
NoRow == [mounted |-> FALSE]

\* useReducer's initialiser (no initState), then the first commit
InitialState(its, estimate, padding) ==
    [items |-> its,
     estimatedItemHeight |-> estimate,
     overscanPadding |-> padding,
     heightCache |-> << >>,
     isInView |-> TRUE,
     nailPoints |-> [i \in 1..Len(its) |-> (i - 1) * estimate],
     listHeight |-> Len(its) * estimate,
     firstIndex |-> 0,
     lastIndex |-> 0]

Init ==
    /\ \E its \in ItemLists, estimate \in Estimates, padding \in Paddings :
          state = InitialState(its, estimate, padding)
    /\ scrollTop \in Scrolls
    /\ edges = NoEdges
    /\ last = Step("mount")
    /\ initDone = FALSE
    /\ error = FALSE
    /\ row = NoRow

\* the reducer's result is committed; a throw while rendering unmounts the list
Settle(r) ==
    /\ r.scrollTop \in Scrolls
    /\ state' = r.state
    /\ scrollTop' = r.scrollTop
    /\ edges' = r.edges
    /\ error' = r.threw

Commit(r, label) ==
    /\ Settle(r)
    /\ last' = IF r.threw THEN [label EXCEPT !.type = "throw"] ELSE label

\* useEffect(() => dispatch({ type: 'init' }), [])
DispatchInit ==
    /\ ~error /\ ~initDone
    /\ initDone' = TRUE
    /\ \E r \in {ReduceScroll(state, scrollTop, edges)} : Commit(r, Step("init"))
    /\ UNCHANGED row

\* the host scrolls (or the window is resized), then handleScroll:
\* dispatch({ type: 'scroll' })
Scroll ==
    /\ ~error /\ initDone
    /\ \E sT \in Scrolls :
          \E r \in {ReduceScroll(state, sT, edges)} : Commit(r, Step("scroll"))
    /\ UNCHANGED <<initDone, row>>

HandleResizeCallsAlways(itemIndex, height) ==
    <<[index |-> itemIndex, height |-> height]>>
\* handleResize of a row: the calls of onMeasure it makes for a reported block
\* size; a block size of 0 is dropped
HandleResizeCalls(itemIndex, height) ==
    IF height = 0 THEN <<>> ELSE <<[index |-> itemIndex, height |-> height]>>

\* the row's previous and new height, for the label of a measure
HeightDiff(st, nextState, itemIndex) ==
    GetHeight(nextState.heightCache, st.estimatedItemHeight, st.items[itemIndex + 1])
    - GetHeight(st.heightCache, st.estimatedItemHeight, st.items[itemIndex + 1])

\* a ResizeObserver entry for a row, then handleResize and, through onMeasure,
\* dispatch({ type: 'measure', index, height }); the row may be one that a
\* props-update has since removed from the list
HandleResize ==
    /\ ~error /\ initDone
    /\ \E itemIndex \in 0..(MaxItems - 1), height \in Reports :
          \E calls \in {HandleResizeCalls(itemIndex, height)} :
             IF calls = <<>>
             THEN last' = Step("ignored") /\ UNCHANGED <<state, scrollTop, edges, error>>
             ELSE \E r \in {ReduceMeasure(state, scrollTop, edges, calls[1].index,
                                          calls[1].height)} :
                     Commit(r, IF r.threw \/ r.same
                               THEN [Step("same") EXCEPT !.index = calls[1].index,
                                                         !.height = calls[1].height]
                               ELSE [type |-> "measure", index |-> calls[1].index,
                                     height |-> calls[1].height,
                                     pivotIndex |-> r.pivotIndex,
                                     compensated |-> r.compensated,
                                     delta |-> Minus(r.scrollTop, scrollTop),
                                     diff |-> HeightDiff(state, r.state, calls[1].index)])
    /\ UNCHANGED <<initDone, row>>

\* the render of VirtualList with props that differ from the state:
\* dispatch({ type: 'props-update', items, estimatedItemHeight, overscanPadding })
PropsUpdate ==
    /\ ~error /\ initDone
    /\ \E newItems \in ItemLists, newEstimate \in Estimates, newPadding \in Paddings :
          \E r \in {ReducePropsUpdate(state, scrollTop, edges, newItems, newEstimate,
                                      newPadding)} :
             Commit(r, [Step("props-update") EXCEPT
                           !.diff = Len(r.state.items) - Len(state.items),
                           !.delta = r.state.overscanPadding - state.overscanPadding])
    /\ UNCHANGED <<initDone, row>>

\* items.slice(start, end): a NaN bound counts as 0, a negative one from the end
SliceItems(its, start, end) ==
    LET from(x) == IF IsNaN(x) THEN 0
                   ELSE IF x < 0 THEN (IF Len(its) + x < 0 THEN 0 ELSE Len(its) + x)
                   ELSE IF x > Len(its) THEN Len(its) ELSE x
    IN SubSeq(its, from(start) + 1, from(end))

RenderAlways(st) ==
    LET rows == SliceItems(st.items, st.firstIndex, Plus(st.lastIndex, 1))
    IN [k \in 1..Len(rows) |->
          [itemIndex |-> Plus(st.firstIndex, k - 1), id |-> rows[k],
           nailPoint |-> At(st.nailPoints, Plus(st.firstIndex, k - 1))]]
\* the VirtualListItem elements the render of VirtualList returns, with their
\* itemIndex, itemData.id and nailPoint props
Render(st) ==
    IF ~st.isInView THEN <<>>
    ELSE LET rows == SliceItems(st.items, st.firstIndex, Plus(st.lastIndex, 1))
         IN [k \in 1..Len(rows) |->
               [itemIndex |-> Plus(st.firstIndex, k - 1), id |-> rows[k],
                nailPoint |-> At(st.nailPoints, Plus(st.firstIndex, k - 1))]]

Next == DispatchInit \/ Scroll \/ HandleResize \/ PropsUpdate

Spec == Init /\ [][Next]_vars

\* ------------------------------------------------------- VirtualListItem
\* the props of a row that its effects and its memo comparator read
RowProps == [itemIndex : 0..(MaxItems - 1), nailPoint : {0, 1},
             isAlreadyMeasured : BOOLEAN, isMeasurmentDisabled : BOOLEAN]

PropsOf(r) == [itemIndex |-> r.itemIndex, nailPoint |-> r.nailPoint,
               isAlreadyMeasured |-> r.isAlreadyMeasured,
               isMeasurmentDisabled |-> r.isMeasurmentDisabled]

WithProps(r, p) == [r EXCEPT !.itemIndex = p.itemIndex, !.nailPoint = p.nailPoint,
                             !.isAlreadyMeasured = p.isAlreadyMeasured,
                             !.isMeasurmentDisabled = p.isMeasurmentDisabled]

\* the label of a row's step: its type, the calls of onMeasure it made, the
\* priority of the callback it scheduled ("none" when it scheduled nothing),
\* and whether a teardown disconnected an observer or cancelled a callback
RowStep(type) == [type |-> type, calls |-> <<>>, scheduled |-> "none",
                  disconnected |-> FALSE, cancelled |-> FALSE]

PriorityOfAlwaysUserBlocking(isAlreadyMeasured) == "UserBlockingPriority"
\* const priority = isAlreadyMeasured ? LowPriority : UserBlockingPriority
PriorityOf(isAlreadyMeasured) ==
    IF isAlreadyMeasured THEN "LowPriority" ELSE "UserBlockingPriority"

\* observer.current?.disconnect(); observer.current = null: the cleanup the
\* first effect returned when it ran with measurement enabled. The observer
\* the ref holds is the last one created
DetachCleanupNever(r, wasDisabled) == r
DetachCleanup(r, wasDisabled) ==
    IF wasDisabled \/ ~r.observerCurrent THEN r
    ELSE [r EXCEPT !.observers = SubSeq(@, 1, Len(@) - 1), !.observerCurrent = FALSE]

\* cancelCallback(node): the cleanup of the second effect, when it scheduled
\* a callback. The node it holds is the task scheduled last
AttachCleanup(r) ==
    IF r.node = "pending"
    THEN [r EXCEPT !.tasks = SubSeq(@, 1, Len(@) - 1), !.node = "none"]
    ELSE [r EXCEPT !.node = "none"]

\* the second effect: nothing when measurement is disabled or the ref holds an
\* observer, else scheduleCallback(priority, ...) with the handleResize of
\* this render
AttachEffectNoReuse(r) ==
    IF r.isMeasurmentDisabled THEN [r EXCEPT !.node = "none"]
    ELSE [r EXCEPT !.tasks = Append(@, [priority |-> PriorityOf(r.isAlreadyMeasured),
                                        itemIndex |-> r.itemIndex]),
                   !.node = "pending",
                   !.step.scheduled = PriorityOf(r.isAlreadyMeasured)]
AttachEffect(r) ==
    IF r.isMeasurmentDisabled \/ r.observerCurrent THEN [r EXCEPT !.node = "none"]
    ELSE [r EXCEPT !.tasks = Append(@, [priority |-> PriorityOf(r.isAlreadyMeasured),
                                        itemIndex |-> r.itemIndex]),
                   !.node = "pending",
                   !.step.scheduled = PriorityOf(r.isAlreadyMeasured)]

\* the first commit of a row and its effects; refCurrent tells whether the
\* item component passed rootElProps.ref on to an element
MountRow(p, refCurrent) ==
    AttachEffect(WithProps([mounted |-> TRUE, unmounted |-> FALSE,
                            itemIndex |-> 0, nailPoint |-> 0,
                            isAlreadyMeasured |-> FALSE, isMeasurmentDisabled |-> FALSE,
                            refCurrent |-> refCurrent, observerCurrent |-> FALSE,
                            observers |-> <<>>, tasks |-> <<>>, node |-> "none",
                            step |-> RowStep("mount")], p))

\* one row is mounted; the list around it is left aside
ItemInit ==
    /\ state = InitialState(<<>>, 1, 0)
    /\ scrollTop = 0
    /\ edges = NoEdges
    /\ last = Step("mount")
    /\ initDone = FALSE
    /\ error = FALSE
    /\ \E p \in RowProps, refCurrent \in BOOLEAN : row = MountRow(p, refCurrent)

\* the memo comparator let a render with other props through; the cleanups of
\* the effects whose dependencies changed run, then these effects.
\* handleResize changes with itemIndex (onMeasure is the list's stable one)
RerenderRow(r, p) ==
    LET detachDeps == \/ p.isMeasurmentDisabled # r.isMeasurmentDisabled
                      \/ p.itemIndex # r.itemIndex
        attachDeps == detachDeps \/ p.isAlreadyMeasured # r.isAlreadyMeasured
        r0 == [r EXCEPT !.step = RowStep("rerender")]
        r1 == IF detachDeps THEN DetachCleanup(r0, r.isMeasurmentDisabled) ELSE r0
        r2 == IF attachDeps THEN AttachCleanup(r1) ELSE r1
        r3 == WithProps(r2, p)
    IN IF attachDeps THEN AttachEffect(r3) ELSE r3

Rerender ==
    /\ row.mounted
    /\ \E p \in RowProps \ {PropsOf(row)} : row' = RerenderRow(row, p)
    /\ UNCHANGED <<state, scrollTop, edges, last, initDone, error>>

\* the scheduler runs a callback: if (!ref.current) return;
\* observer.current = new ResizeObserver(handleResize); observe(ref.current)
TaskRunSkips(r, k) ==
    [r EXCEPT !.step = RowStep("task"),
              !.tasks = SubSeq(@, 1, k - 1) \o SubSeq(@, k + 1, Len(@)),
              !.node = IF @ = "pending" /\ k = Len(r.tasks) THEN "done" ELSE @]
TaskRun(r, k) ==
    LET task == r.tasks[k]
        r0 == [r EXCEPT !.step = RowStep("task"),
                        !.tasks = SubSeq(@, 1, k - 1) \o SubSeq(@, k + 1, Len(@)),
                        !.node = IF @ = "pending" /\ k = Len(r.tasks) THEN "done" ELSE @]
    IN IF ~r.refCurrent THEN r0
       ELSE [r0 EXCEPT !.observers = Append(@, [itemIndex |-> task.itemIndex]),
                       !.observerCurrent = TRUE]

RunTask ==
    /\ \E k \in 1..Len(row.tasks) : row' = TaskRun(row, k)
    /\ UNCHANGED <<state, scrollTop, edges, last, initDone, error>>

\* a ResizeObserver the row created delivers an entry to its handleResize
Report ==
    /\ \E k \in 1..Len(row.observers), height \in Reports :
          row' = [row EXCEPT !.step =
                     [RowStep("resize") EXCEPT
                         !.calls = HandleResizeCalls(row.observers[k].itemIndex, height)]]
    /\ UNCHANGED <<state, scrollTop, edges, last, initDone, error>>

\* the row is torn down: React clears the ref and runs the effects' cleanups
Unmount ==
    /\ row.mounted
    /\ \E r \in {AttachCleanup(DetachCleanup(row, row.isMeasurmentDisabled))} :
          row' = [r EXCEPT !.mounted = FALSE, !.unmounted = TRUE, !.refCurrent = FALSE,
                           !.step = [RowStep("unmount") EXCEPT
                                        !.disconnected = Len(r.observers) < Len(row.observers),
                                        !.cancelled = Len(r.tasks) < Len(row.tasks)]]
    /\ UNCHANGED <<state, scrollTop, edges, last, initDone, error>>

ItemNext == Rerender \/ RunTask \/ Report \/ Unmount

ItemSpec == ItemInit /\ [][ItemNext]_vars

\* ------------------------------------------------- the list with its rows
\* here `row` holds the rows of the list by id (rows), the block size each
\* id's element really has (heights), the ids whose attached observer has
\* delivered that size (told): a ResizeObserver reports a size once; whether
\* a scroll event of the host is waiting for handleScroll (events) and
\* whether the reducer's last call returned a new state object (fresh)
RowIds == 1..MaxItems

\* the scroll offsets the host is scrolled to: the compensations that follow
\* (at most one change of height for each id) stay within Scrolls
Drift == MaxItems * (MaxHeight - 1)
HostScrolls == {sT \in Scrolls : sT - Drift \in Scrolls /\ sT + Drift \in Scrolls}

\* the indexes of the rows the list renders in st
RenderedIndexes(st) == {Render(st)[k].itemIndex : k \in 1..Len(Render(st))}
\* the props VirtualList passes to the row of id in st, when it renders one
RenderedIds(st) == {Render(st)[k].id : k \in 1..Len(Render(st))}
RowPropsIn(st, id) ==
    LET k == CHOOSE k \in 1..Len(Render(st)) : Render(st)[k].id = id
    IN [itemIndex |-> Render(st)[k].itemIndex, nailPoint |-> Render(st)[k].nailPoint,
        isAlreadyMeasured |-> IsCached(st.heightCache, id),
        isMeasurmentDisabled |-> FALSE]

\* the commit of a render of st: rows of ids no longer rendered are torn
\* down, new ones are mounted, the others get their new props; a list that
\* threw is unmounted with all its rows
CommitRows(rows, st, threw) ==
    [id \in RowIds |->
        IF threw \/ id \notin RenderedIds(st) THEN NoRow
        ELSE LET p == RowPropsIn(st, id)
                 r == IF ~rows[id].mounted THEN MountRow(p, TRUE)
                      ELSE IF PropsOf(rows[id]) = p THEN rows[id]
                      ELSE RerenderRow(rows[id], p)
             IN [r EXCEPT !.step = RowStep("live")]]

StillToldForgets(told, rows) == {}
\* the observers that are gone have told nothing
StillTold(told, rows) ==
    {id \in told : rows[id].mounted /\ rows[id].observers # <<>>}

WithRows(rows, st, threw) ==
    LET next == CommitRows(rows, st, threw)
    IN [row EXCEPT !.rows = next, !.told = StillTold(row.told, next)]

\* in this specification `last` names the handler that ran last and the id
\* of its row (0 for the list's own handlers); diff alternates between 0 and
\* 1, so that two runs of one handler in a row are two steps of `last`
LiveStep(type, id) == [Step(type) EXCEPT !.index = id, !.diff = 1 - last.diff]

LiveInit ==
    /\ \E its \in ItemLists, estimate \in Estimates, padding \in Paddings :
          state = InitialState(its, estimate, padding)
    /\ scrollTop \in HostScrolls
    /\ edges = NoEdges
    /\ last = Step("mount")
    /\ initDone = FALSE
    /\ error = FALSE
    /\ \E heights \in [RowIds -> Reports] :
          row = [rows |-> CommitRows([id \in RowIds |-> NoRow], state, FALSE),
                 heights |-> heights, told |-> {}, events |-> 0, fresh |-> FALSE]

\* useEffect(() => dispatch({ type: 'init' }), []) is pending
InitDue == ~error /\ ~initDone

\* useEffect(() => dispatch({ type: 'init' }), []), then the commit
LiveDispatchInit ==
    /\ InitDue
    /\ initDone' = TRUE
    /\ last' = LiveStep("init", 0)
    /\ \E r \in {ReduceScroll(state, scrollTop, edges)} :
          /\ Settle(r)
          /\ row' = [WithRows(row.rows, r.state, r.threw)
                        EXCEPT !.fresh = ~r.threw /\ ~r.same]

\* the host is scrolled, handleScroll dispatches, then the commit
LiveScroll ==
    /\ ~error /\ initDone
    /\ last' = LiveStep("scroll", 0)
    /\ \E sT \in HostScrolls :
          \E r \in {ReduceScroll(state, sT, edges)} :
             /\ Settle(r)
             /\ row' = [WithRows(row.rows, r.state, r.threw)
                           EXCEPT !.events = 0, !.fresh = ~r.threw /\ ~r.same]
    /\ UNCHANGED initDone

\* the reducer wrote document.documentElement.scrollTop and the host's scroll
\* event has not reached handleScroll yet
ScrollEventDue == ~error /\ initDone /\ row.events = 1

\* the scroll event of a compensation: handleScroll dispatches, then the commit
LiveScrollEvent ==
    /\ ScrollEventDue
    /\ last' = LiveStep("scroll-event", 0)
    /\ \E r \in {ReduceScroll(state, scrollTop, edges)} :
          /\ Settle(r)
          /\ row' = [WithRows(row.rows, r.state, r.threw)
                        EXCEPT !.events = 0, !.fresh = ~r.threw /\ ~r.same]
    /\ UNCHANGED initDone

\* the scheduler holds a callback of the row of id
TaskDue(id) ==
    /\ ~error /\ initDone
    /\ row.rows[id].mounted /\ row.rows[id].tasks # <<>>

\* the scheduler runs the callback of the row of id
LiveRunTask(id) ==
    /\ TaskDue(id)
    /\ last' = LiveStep("task", id)
    /\ row' = [row EXCEPT !.rows[id] = [TaskRun(@, 1) EXCEPT !.step = RowStep("live")],
                          !.fresh = FALSE]
    /\ UNCHANGED <<state, scrollTop, edges, initDone, error>>

\* the observer of the row of id has a size it has not delivered yet
ReportDue(id) ==
    /\ ~error /\ initDone
    /\ row.rows[id].mounted /\ row.rows[id].observers # <<>> /\ id \notin row.told

\* the observer of the row of id delivers the element's size to handleResize
\* and, through onMeasure, to the reducer; then the commit
LiveReport(id) ==
    /\ ReportDue(id)
    /\ last' = LiveStep("report", id)
    /\ \E calls \in {HandleResizeCalls(row.rows[id].observers[1].itemIndex,
                                        row.heights[id])} :
          IF calls = <<>>
          THEN /\ row' = [row EXCEPT !.told = @ \cup {id}, !.fresh = FALSE]
               /\ UNCHANGED <<state, scrollTop, edges, error>>
          ELSE \E r \in {ReduceMeasure(state, scrollTop, edges, calls[1].index,
                                       calls[1].height)} :
                  /\ Settle(r)
                  /\ \E next \in {CommitRows(row.rows, r.state, r.threw)} :
                        row' = [row EXCEPT !.rows = next,
                                           !.told = StillTold(@ \cup {id}, next),
                                           !.events = IF r.scrollTop # scrollTop
                                                      THEN 1 ELSE @,
                                           !.fresh = ~r.threw /\ ~r.same]
    /\ UNCHANGED initDone

LiveNext ==
    \/ LiveDispatchInit
    \/ LiveScroll
    \/ LiveScrollEvent
    \/ \E id \in RowIds : LiveRunTask(id)
    \/ \E id \in RowIds : LiveReport(id)

\* the steps of LiveNext as `last` shows them: a step of LiveNext sets last
\* to LiveStep("init", 0) exactly when it is LiveDispatchInit, to
\* LiveStep("scroll-event", 0) exactly when it is LiveScrollEvent, to
\* LiveStep("task", id) exactly when it is LiveRunTask(id) and to
\* LiveStep("report", id) exactly when it is LiveReport(id), and each of the
\* four can be taken whenever it is due (HostScrolls keeps Settle's bound
\* out of the way)
InitRuns == InitDue /\ last' = LiveStep("init", 0)
ScrollEventRuns == ScrollEventDue /\ last' = LiveStep("scroll-event", 0)
TaskRuns(id) == TaskDue(id) /\ last' = LiveStep("task", id)
ReportRuns(id) == ReportDue(id) /\ last' = LiveStep("report", id)

\* a step that is due is never held back by Settle's bound
DueStepsCanRun ==
    /\ (InitDue \/ ScrollEventDue)
          => ReduceScroll(state, scrollTop, edges).scrollTop \in Scrolls
    /\ \A id \in RowIds :
          LET calls == HandleResizeCalls(row.rows[id].observers[1].itemIndex,
                                         row.heights[id])
          IN (ReportDue(id) /\ calls # <<>>)
                => ReduceMeasure(state, scrollTop, edges, calls[1].index,
                                 calls[1].height).scrollTop \in Scrolls

\* React runs the mount effect, the host delivers its scroll events, the
\* scheduler runs every callback it holds and a ResizeObserver delivers the
\* size of every element it observes
LiveFairness ==
    /\ WF_last(InitRuns)
    /\ WF_last(ScrollEventRuns)
    /\ \A id \in RowIds : WF_last(TaskRuns(id)) /\ WF_last(ReportRuns(id))

LiveSpec == LiveInit /\ [][LiveNext]_vars /\ LiveFairness

\* the list left alone: no scroll or resize of the host but the reducer's
\* own, no new props
QuietNext ==
    \/ LiveDispatchInit
    \/ LiveScrollEvent
    \/ \E id \in RowIds : LiveRunTask(id)
    \/ \E id \in RowIds : LiveReport(id)

QuietSpec == LiveInit /\ [][QuietNext]_vars /\ LiveFairness
\* ------------------------------------------- the reducer called again
\* React calls a reducer again with the action objects it holds: a render
\* goes through the queue of dispatched actions from the committed state, and
\* a render that is invoked twice goes through it twice. Here `row` holds the
\* queue of measure actions (queue), the place of the next one (pos), the
\* number of the pass (pass), the state the pass has computed (work), the
\* module's prevAction as a place in the queue (0: an object of an earlier
\* queue, or null) and, for each action, how often a call with it wrote
\* document.documentElement.scrollTop (count)
MaxQueue == 2
Idle == [queue |-> <<>>, pos |-> 1, pass |-> 1, work |-> <<>>, prevAction |-> 0,
         count |-> [k \in 1..MaxQueue |-> 0]]

\* let prevAction = null; isReactStrictModeDuplicate(action)
IsReactStrictModeDuplicate(k, prevAction) == k = prevAction

ReplayInit ==
    /\ \E its \in ItemLists, estimate \in Estimates, padding \in Paddings :
          state = InitialState(its, estimate, padding)
    /\ scrollTop \in Scrolls
    /\ edges = NoEdges
    /\ last = Step("mount")
    /\ initDone = FALSE
    /\ error = FALSE
    /\ row = Idle

\* observers of rendered rows call onMeasure before React renders:
\* dispatch({ type: 'measure', index, height }), once or twice
ReplayDispatch ==
    /\ ~error /\ initDone /\ row.queue = <<>>
    /\ \E n \in 1..MaxQueue :
          \E queue \in [1..n -> [index : RenderedIndexes(state), height : Heights]] :
             row' = [Idle EXCEPT !.queue = queue, !.work = state]
    /\ last' = Step("dispatch")
    /\ UNCHANGED <<state, scrollTop, edges, initDone, error>>

\* React calls the reducer with the next action of the queue
ReplayReduce ==
    /\ ~error /\ row.pos <= Len(row.queue)
    /\ \E r \in {ReduceMeasureAction(row.work, scrollTop, edges,
                                       row.queue[row.pos].index,
                                       row.queue[row.pos].height,
                                       IsReactStrictModeDuplicate(row.pos, row.prevAction))} :
          /\ r.scrollTop \in Scrolls
          /\ scrollTop' = r.scrollTop
          /\ edges' = r.edges
          /\ error' = r.threw
          /\ last' = [Step(IF r.threw THEN "throw" ELSE IF r.same THEN "same" ELSE "measure")
                        EXCEPT !.index = row.queue[row.pos].index,
                               !.height = row.queue[row.pos].height,
                               !.compensated = r.compensated,
                               !.delta = Minus(r.scrollTop, scrollTop)]
          /\ row' = [row EXCEPT !.pos = @ + 1,
                                !.work = r.state,
                                !.prevAction = IF r.threw \/ r.same THEN @ ELSE row.pos,
                                !.count[row.pos] = IF r.scrollTop # scrollTop THEN @ + 1 ELSE @]
    /\ UNCHANGED <<state, initDone>>

\* the render is invoked a second time: the queue is gone through again from
\* the committed state
ReplayAgain ==
    /\ ~error /\ row.queue # <<>> /\ row.pos > Len(row.queue) /\ row.pass = 1
    /\ row' = [row EXCEPT !.pos = 1, !.pass = 2, !.work = state]
    /\ last' = Step("again")
    /\ UNCHANGED <<state, scrollTop, edges, initDone, error>>

\* the render's result is committed
ReplayCommit ==
    /\ ~error /\ row.queue # <<>> /\ row.pos > Len(row.queue)
    /\ state' = row.work
    /\ row' = [Idle EXCEPT !.count = row.count]
    /\ last' = Step("commit")
    /\ UNCHANGED <<scrollTop, edges, initDone, error>>

ReplayNext ==
    \/ DispatchInit
    \/ ReplayDispatch
    \/ ReplayReduce
    \/ ReplayAgain
    \/ ReplayCommit

ReplaySpec == ReplayInit /\ [][ReplayNext]_vars

\* ------------------------------------------- the list and one observer
\* here `row` follows the ResizeObserver of one row: the id of the item the
\* row renders (its key, and the element the observer watches) and the
\* itemIndex in the handleResize the observer was created with
Observed(id, itemIndex) == [mounted |-> TRUE, id |-> id, itemIndex |-> itemIndex]

\* the scheduled callback of a rendered row creates its observer:
\* new ResizeObserver(handleResize), with the handleResize of that render
Observe ==
    /\ ~error /\ initDone /\ ~row.mounted
    /\ \E i \in RenderedIndexes(state) : row' = Observed(state.items[i + 1], i)
    /\ last' = Step("observe")
    /\ UNCHANGED <<state, scrollTop, edges, initDone, error>>

\* the row is rendered in st with the itemIndex its observer knows
IsCurrent(r, st) ==
    \E k \in 1..Len(Render(st)) :
       Render(st)[k].id = r.id /\ Render(st)[k].itemIndex = r.itemIndex

\* after a commit the row's effects run: the cleanup disconnects the
\* observer of a row that was unmounted or whose handleResize changed with
\* its itemIndex
RowEffects ==
    /\ ~error /\ row.mounted /\ ~IsCurrent(row, state)
    /\ row' = NoRow
    /\ last' = Step("effects")
    /\ UNCHANGED <<state, scrollTop, edges, initDone, error>>

\* the sizes the observer can deliver: an element that left the document has
\* block size 0
Deliverable(r, st) == IF r.id \in RenderedIds(st) THEN Reports ELSE {0}

\* the observer delivers the element's size to the handleResize it was
\* created with, which calls onMeasure(itemIndex, height)
Deliver ==
    /\ ~error /\ initDone /\ row.mounted
    /\ \E height \in Deliverable(row, state) :
          \E calls \in {HandleResizeCalls(row.itemIndex, height)} :
             IF calls = <<>>
             THEN last' = Step("ignored") /\ UNCHANGED <<state, scrollTop, edges, error>>
             ELSE \E r \in {ReduceMeasure(state, scrollTop, edges, calls[1].index,
                                          calls[1].height)} :
                     Commit(r, [Step(IF r.threw \/ r.same THEN "same" ELSE "measure")
                                  EXCEPT !.index = calls[1].index,
                                         !.height = calls[1].height])
    /\ UNCHANGED <<initDone, row>>

ObserverNext ==
    \/ DispatchInit
    \/ Scroll
    \/ PropsUpdate
    \/ Observe
    \/ RowEffects
    \/ Deliver

ObserverSpec == Init /\ [][ObserverNext]_vars

\* ----------------------------------------------------------------- claims
\* heightOf(item i) of a state: the cached height if present, else the
\* current estimatedItemHeight
HeightOf(st, i) == GetHeight(st.heightCache, st.estimatedItemHeight, st.items[i + 1])

\* the position table of st is the prefix sum of its items' heights
TableIsConsistent(st) ==
    LET n == Len(st.items)
    IN /\ Len(st.nailPoints) = n
       /\ StrictEq(At(st.nailPoints, 0), 0)
       /\ \A i \in 0..(n - 2) :
             StrictEq(Minus(At(st.nailPoints, i + 1), At(st.nailPoints, i)), HeightOf(st, i))
       /\ StrictEq(st.listHeight, Plus(At(st.nailPoints, n - 1), HeightOf(st, n - 1)))

\* C1: in every state reached after mount, a non-empty item list has one nail
\* point per item, nailPoints[0] = 0, consecutive nail points differ by the
\* item's height, and listHeight = nailPoints[n-1] + heightOf(item n-1),
\* whatever the previous list was (a previously empty one included).
C1_TableConsistent ==
    (~error /\ Len(state.items) > 0) => TableIsConsistent(state)

\* the steps in which the reducer computed window edges
Computing == {"init", "scroll", "measure", "props-update"}

\* row i of st meets the window [e.top, e.bottom], both ends included
Intersects(st, e, i) ==
    /\ Le(e.top, Plus(At(st.nailPoints, i), HeightOf(st, i)))
    /\ Le(At(st.nailPoints, i), e.bottom)

\* C2: after every action that leaves isInView = true, with respect to the
\* window edges computed in that action, every index in [firstIndex, lastIndex]
\* intersects the window under the closed-interval test, and firstIndex - 1 and
\* lastIndex + 1, when they are indexes of the list, do not.
C2_RangeIsExact ==
    (~error /\ last.type \in Computing /\ state.isInView /\ Len(state.items) > 0)
    => \A i \in 0..(Len(state.items) - 1) :
          /\ (Le(state.firstIndex, i) /\ Le(i, state.lastIndex))
                => Intersects(state, edges, i)
          /\ (StrictEq(i, Minus(state.firstIndex, 1)) \/ StrictEq(i, Plus(state.lastIndex, 1)))
                => ~Intersects(state, edges, i)

\* a scroll left the last rendered row only touching the window's bottom edge
C2_Witness ==
    /\ ~error /\ last.type = "scroll" /\ state.isInView
    /\ Lt(state.firstIndex, state.lastIndex)
    /\ StrictEq(At(state.nailPoints, state.lastIndex), edges.bottom)

\* C3: for every scroll offset, container offset, viewport size and
\* overscanPadding >= 0, and a listHeight >= 0, getWindowEdges returns
\* 0 <= top <= bottom <= listHeight with isInView true exactly when
\* bottom # top; a padded viewport entirely above the list
\* (rawBottom + padding <= 0) or entirely below it
\* (rawTop - padding >= listHeight) gives isInView = false.
C3_EdgesClamped ==
    Le(0, state.listHeight)
    => \A sT \in Scrolls, off \in Offsets, iH \in Viewports, p \in Paddings :
          LET e == GetWindowEdges(sT, iH, state.listHeight, off, p)
          IN /\ 0 <= e.top /\ e.top <= e.bottom /\ e.bottom <= state.listHeight
             /\ e.isInView <=> (e.bottom # e.top)
             /\ (sT - off + iH + p <= 0 \/ sT - off - p >= state.listHeight)
                   => ~e.isInView

\* a scroll put the padded viewport entirely below a non-empty list, and the
\* reducer's edges say the list is out of view
C3_Witness ==
    /\ ~error /\ last.type = "scroll"
    /\ Le(1, edges.listHeight)
    /\ Le(edges.listHeight, Minus(edges.rawTop, state.overscanPadding))
    /\ ~edges.isInView /\ ~state.isInView

\* the bottom edge of row p of st: nailPoints[p] + heightOf(p)
BottomEdge(st, p) == Plus(At(st.nailPoints, p), HeightOf(st, p))

\* C4: whenever a measure applies scroll compensation, scrollTop is decreased
\* by exactly (prevNailPoint[pivot] + prevHeight(pivot)) -
\* (newNailPoint[pivot] + newHeight(pivot)), the prev values being those of
\* the state before the measure; hence the pivot row's bottom edge minus
\* scrollTop is the same before and after; and the table written by the
\* measure is the prefix sum of the new heights, whatever the compensation.
C4_CompensationExact ==
    [][(last'.type = "measure" /\ last'.compensated)
       => LET p == last'.pivotIndex
          IN /\ StrictEq(scrollTop',
                         Minus(scrollTop, Minus(BottomEdge(state, p), BottomEdge(state', p))))
             /\ StrictEq(Minus(BottomEdge(state', p), scrollTop'),
                         Minus(BottomEdge(state, p), scrollTop))
             /\ TableIsConsistent(state')]_vars

\* a compensated measure of the pivot row itself moved scrollTop
C4_Witness ==
    /\ ~error /\ last.type = "measure" /\ last.compensated
    /\ last.pivotIndex = last.index /\ last.delta # 0 /\ last.diff # 0

\* C5: a state-changing measure modifies scrollTop only if the measured index
\* is above the pivot (index < pivotIndex), or the previous lastIndex is at or
\* before the pivot (lastIndex <= pivotIndex), or the new listHeight is
\* smaller than the old one; when none of the three holds scrollTop is left
\* untouched.
C5_CompensationOnlyWhen ==
    [][last'.type = "measure"
       => \/ Lt(last'.index, last'.pivotIndex)
          \/ Le(state.lastIndex, last'.pivotIndex)
          \/ Lt(state'.listHeight, state.listHeight)
          \/ scrollTop' = scrollTop]_vars

\* a measure changed the height of a row, none of the three conditions held
\* and scrollTop was left alone
C5_Witness ==
    /\ ~error /\ last.type = "measure" /\ ~last.compensated
    /\ last.diff > 0 /\ last.delta = 0 /\ last.index = last.pivotIndex

\* C6: a measure whose height equals the height cached for that row is a
\* no-op: the reducer returns the state object it was given and scrollTop is
\* not modified, so reporting the same (id, height) twice produces no second
\* transition.
C6_SameHeightNoOp ==
    (~error /\ initDone)
    => \A i \in 0..(Len(state.items) - 1), h \in Heights :
          (state.items[i + 1] \in DOMAIN state.heightCache
              /\ state.heightCache[state.items[i + 1]] = h)
          => LET r == ReduceMeasure(state, scrollTop, edges, i, h)
             IN ~r.threw /\ r.same /\ r.state = state /\ r.scrollTop = scrollTop

\* a row reported the height it already has in the cache
C6_Witness ==
    /\ ~error /\ last.type = "same" /\ DOMAIN state.heightCache # {}

\* C7 as stated: a measure for a row with index > lastIndex whose new height
\* is not smaller than its previous height changes listHeight by exactly
\* (new - old), leaves firstIndex, lastIndex, isInView and scrollTop unchanged,
\* provided scrollTop has not changed since the range was last computed.
C7_AsStated ==
    [][(/\ last'.type = "measure"
        /\ Lt(state.lastIndex, last'.index)
        /\ last'.diff >= 0
        /\ StrictEq(edges.rawTop, Minus(scrollTop, RootElOffsetTop)))
       => /\ StrictEq(Minus(state'.listHeight, state.listHeight), last'.diff)
          /\ state'.firstIndex = state.firstIndex
          /\ state'.lastIndex = state.lastIndex
          /\ state'.isInView = state.isInView
          /\ scrollTop' = scrollTop]_vars

\* C7: while the list is in view (isInView = true), a measure for a row
\* below the visible range (index > lastIndex) whose new height is not smaller
\* than its previous height changes listHeight by exactly (new - old), leaves
\* firstIndex, lastIndex, isInView and scrollTop unchanged, provided scrollTop
\* has not changed since the range was last computed.
C7_BelowRangeGrowth ==
    [][(/\ last'.type = "measure"
        /\ state.isInView
        /\ Lt(state.lastIndex, last'.index)
        /\ last'.diff >= 0
        /\ StrictEq(edges.rawTop, Minus(scrollTop, RootElOffsetTop)))
       => /\ StrictEq(Minus(state'.listHeight, state.listHeight), last'.diff)
          /\ state'.firstIndex = state.firstIndex
          /\ state'.lastIndex = state.lastIndex
          /\ state'.isInView = state.isInView
          /\ scrollTop' = scrollTop]_vars

\* a row below the rendered range of a list in view has grown
C7_Witness ==
    /\ ~error /\ last.type = "measure" /\ state.isInView
    /\ Lt(state.lastIndex, last.index) /\ last.diff > 0 /\ last.delta = 0

\* C8: for a measure at an index strictly above the pivot
\* (index < pivotIndex) that changes the row's height by d = new - old:
\* listHeight changes by d, scrollTop changes by d, and
\* nailPoints[pivot] - scrollTop is the same before and after the measure.
C8_AbovePivotShift ==
    [][(last'.type = "measure" /\ Lt(last'.index, last'.pivotIndex))
       => LET p == last'.pivotIndex
          IN /\ StrictEq(Minus(state'.listHeight, state.listHeight), last'.diff)
             /\ StrictEq(Minus(scrollTop', scrollTop), last'.diff)
             /\ StrictEq(Minus(At(state'.nailPoints, p), scrollTop'),
                         Minus(At(state.nailPoints, p), scrollTop))]_vars

\* a row above the pivot has shrunk and scrollTop followed it
C8_Witness ==
    /\ ~error /\ last.type = "measure" /\ Lt(last.index, last.pivotIndex)
    /\ last.diff < 0 /\ last.delta = last.diff

\* the padded viewport of a host scrolled to sT overlaps the list [0, lH]
PaddedInside(sT, padding, lH) ==
    /\ Lt(Minus(Minus(sT, RootElOffsetTop), padding), lH)
    /\ Lt(0, Plus(Plus(Minus(sT, RootElOffsetTop), InnerHeight), padding))

\* firstIndex and lastIndex of st are indexes of its list, in order
RangeInBounds(st) ==
    /\ Le(0, st.firstIndex) /\ Le(st.firstIndex, st.lastIndex)
    /\ Le(st.lastIndex, Len(st.items) - 1)

\* a props-update to a shorter non-empty list whose listHeight the padded
\* viewport lies beyond completes without error, with firstIndex and lastIndex
\* inside the new list and isInView false
ShrinkLeavesView ==
    (~error /\ initDone)
    => \A newItems \in ItemLists, newEstimate \in Estimates, newPadding \in Paddings :
          LET r == ReducePropsUpdate(state, scrollTop, edges, newItems, newEstimate,
                                     newPadding)
          IN (/\ 0 < Len(newItems) /\ Len(newItems) < Len(state.items)
              /\ Le(0, r.state.listHeight)
              /\ ~PaddedInside(scrollTop, newPadding, r.state.listHeight))
             => /\ ~r.threw
                /\ r.state.items = newItems
                /\ ~r.state.isInView
                /\ RangeInBounds(r.state)

\* a list that is out of view stays so through every step after which the
\* padded viewport still lies beyond [0, listHeight]
StaysOutOfView ==
    (/\ ~state.isInView /\ ~error' /\ Le(0, state'.listHeight)
     /\ ~PaddedInside(scrollTop', state'.overscanPadding, state'.listHeight))
    => ~state'.isInView

\* the step that brings the padded viewport back inside [0, listHeight]
\* produces a range inside the list
ComesBackInBounds ==
    (/\ ~state.isInView /\ ~error'
     /\ PaddedInside(scrollTop', state'.overscanPadding, state'.listHeight))
    => state'.isInView /\ RangeInBounds(state') /\ C2_RangeIsExact'

\* C9 as stated: when the list is replaced by a shorter non-empty list while
\* the padded viewport lies beyond the new listHeight, the props-update
\* completes without error, firstIndex and lastIndex end inside [0, n'-1] and
\* isInView becomes false; isInView stays false through every later action
\* until a scroll brings the padded viewport back inside [0, newListHeight],
\* after which a valid in-bounds range is produced.  The step checked here is
\* the first one after such an update.
C9_AsStated ==
    /\ []ShrinkLeavesView
    /\ [][(/\ last.type = "props-update" /\ last.diff < 0 /\ ~state.isInView
           /\ ~PaddedInside(scrollTop, state.overscanPadding, state.listHeight)
           /\ state'.isInView)
          => last'.type = "scroll"]_vars
    /\ [][ComesBackInBounds]_vars

\* C9: when the list is replaced by a shorter non-empty list while the padded
\* viewport lies beyond the new listHeight, the props-update completes without
\* error, firstIndex and lastIndex end inside [0, n'-1] and isInView becomes
\* false; isInView stays false through every later action for as long as the
\* padded viewport lies beyond [0, listHeight], and the action that brings it
\* back inside (a scroll, or a measure or props-update that changes listHeight
\* or the padding) produces a valid in-bounds visible range.
C9_ShrinkOutOfView ==
    /\ []ShrinkLeavesView
    /\ [][StaysOutOfView]_vars
    /\ [][ComesBackInBounds]_vars

\* a props-update to a shorter list has left the padded viewport beyond the
\* new listHeight and the list out of view
C9_Witness ==
    /\ ~error /\ last.type = "props-update" /\ last.diff < 0
    /\ Len(state.items) > 0 /\ ~state.isInView
    /\ Le(state.listHeight, Minus(edges.rawTop, state.overscanPadding))
    /\ RangeInBounds(state)

\* the rows a range [firstIndex, lastIndex] of st's list names
RangeOf(st, first, lastI) ==
    {i \in 0..(Len(st.items) - 1) : Le(first, i) /\ Le(i, lastI)}

\* the visible range of st's table for the scroll offset sT and the padding p,
\* scanned from st.firstIndex as a scroll event would
RangeFor(st, sT, p) ==
    GetVisibleIndexes(st.firstIndex,
                      GetWindowEdges(sT, InnerHeight, st.listHeight, RootElOffsetTop, p),
                      st.nailPoints, st.items, st.heightCache, st.estimatedItemHeight)

\* the paddings compared: the ones a props-update may set and a larger one
WiderPaddings == Paddings \cup {p + 1 : p \in Paddings}

\* for the table and scroll offset of the state, a larger padding gives a
\* range that is in view whenever the smaller one's is, and contains it
PaddingIsMonotone ==
    (~error /\ initDone /\ Len(state.items) > 0)
    => \A p1 \in WiderPaddings, p2 \in WiderPaddings :
          LET r1 == RangeFor(state, scrollTop, p1)
              r2 == RangeFor(state, scrollTop, p2)
          IN (p1 <= p2 /\ r1.isInView)
             => /\ r2.isInView
                /\ RangeOf(state, r1.firstIndex, r1.lastIndex)
                      \subseteq RangeOf(state, r2.firstIndex, r2.lastIndex)
                /\ ~IsNaN(r1.firstIndex)
                      => /\ Le(r2.firstIndex, r1.firstIndex)
                         /\ Le(r1.lastIndex, r2.lastIndex)

\* a props-update that changes overscanPadding leaves the range of the new
\* padding: the rows that meet the window padded with the new value
PaddingChangeApplies ==
    (last'.type = "props-update" /\ last'.delta # 0)
    => LET e == GetWindowEdges(scrollTop', InnerHeight, state'.listHeight,
                               RootElOffsetTop, state'.overscanPadding)
       IN /\ state'.isInView = e.isInView
          /\ e.isInView
                => RangeOf(state', state'.firstIndex, state'.lastIndex)
                      = {i \in 0..(Len(state'.items) - 1) : Intersects(state', e, i)}

EstimateExample ==
    LET st == InitialState([i \in 1..50 |-> i], 50, 0)
        e == GetWindowEdges(0, 768, st.listHeight, RootElOffsetTop, 0)
        ix == GetVisibleIndexes(st.firstIndex, e, st.nailPoints, st.items,
                                st.heightCache, st.estimatedItemHeight)
    IN st.listHeight = 2500 /\ ix.isInView /\ ix.firstIndex = 0 /\ ix.lastIndex = 15

\* C11: before any row has been measured, nailPoints[i] = i *
\* estimatedItemHeight for every i and listHeight = n * estimatedItemHeight;
\* in particular 50 items of estimated height 50 give listHeight 2500 and,
\* for a viewport of 768 at scroll offset 0 without padding, the range 0..15.
C11_EstimatedTable ==
    /\ EstimateExample
    /\ (~error /\ DOMAIN state.heightCache = {} /\ Len(state.items) > 0)
          => /\ Len(state.nailPoints) = Len(state.items)
             /\ \A i \in 0..(Len(state.items) - 1) :
                   StrictEq(At(state.nailPoints, i), i * state.estimatedItemHeight)
             /\ StrictEq(state.listHeight, Len(state.items) * state.estimatedItemHeight)

\* the rendered rows are the items at firstIndex..lastIndex, once each, when
\* isInView is true and none when it is false, each with its own id and the
\* nail point of its index
RowsAreTheRange ==
    ~error
    => LET rows == Render(state)
       IN /\ {rows[k].itemIndex : k \in 1..Len(rows)}
               = (IF state.isInView
                  THEN RangeOf(state, state.firstIndex, state.lastIndex) ELSE {})
          /\ \A k \in 1..Len(rows), l \in 1..Len(rows) :
                rows[k].itemIndex = rows[l].itemIndex => k = l
          /\ \A k \in 1..Len(rows) :
                /\ rows[k].id = state.items[rows[k].itemIndex + 1]
                /\ StrictEq(rows[k].nailPoint, At(state.nailPoints, rows[k].itemIndex))

\* a scroll of a non-empty list leaves rows exactly when it leaves the padded
\* viewport over the content
ScrollToggles ==
    (last'.type = "scroll" /\ ~error' /\ Len(state'.items) > 0)
    => (Render(state') # <<>>
          <=> PaddedInside(scrollTop', state'.overscanPadding, state'.listHeight))

\* C12: in every state the rows materialized are exactly the items at
\* firstIndex..lastIndex when isInView is true and none when it is false, each
\* positioned at nailPoints[its index]; scrolling out of the content and back
\* in toggles between the empty and the non-empty case.
C12_RenderedRows ==
    /\ []RowsAreTheRange
    /\ [][ScrollToggles]_vars

\* a scroll took the viewport off a non-empty list and no row is rendered
C12_Witness ==
    /\ ~error /\ last.type = "scroll" /\ Len(state.items) > 1
    /\ ~state.isInView /\ Render(state) = <<>>
    /\ Lt(state.firstIndex, state.lastIndex)

\* C13: for an empty item sequence the position table is listHeight = 0 and
\* nailPoints = [], and no operation indexes into the empty table: both when
\* the list is mounted empty and when a non-empty list is replaced by an empty
\* one through a props-update, which completes without error.
C13_EmptyTable ==
    /\ (~error /\ Len(state.items) = 0)
          => state.listHeight = 0 /\ state.nailPoints = <<>>
    /\ (~error /\ initDone /\ Len(state.items) > 0)
          => \A newEstimate \in Estimates, newPadding \in Paddings :
                LET r == ReducePropsUpdate(state, scrollTop, edges, <<>>, newEstimate,
                                           newPadding)
                IN /\ ~r.threw
                   /\ r.state.items = <<>>
                   /\ r.state.listHeight = 0 /\ r.state.nailPoints = <<>>

\* C14: a zero-item list always yields isInView = false: in every state
\* reached once the init action has been reduced whose item list is empty,
\* isInView is false.
C14_EmptyNotInView ==
    (~error /\ initDone /\ Len(state.items) = 0) => ~state.isInView

\* the block sizes that are not positive
NonPositive == {0, -1}

\* C15: a measurement report whose height is non-positive (zero or negative)
\* is ignored: it changes neither heightCache, nailPoints, listHeight, the
\* visible range nor scrollTop.
C15_NonPositiveIgnored ==
    (~error /\ initDone)
    => \A itemIndex \in 0..(Len(state.items) - 1), height \in NonPositive :
          LET calls == HandleResizeCalls(itemIndex, height)
          IN \A k \in 1..Len(calls) :
                LET r == ReduceMeasure(state, scrollTop, edges, calls[k].index,
                                       calls[k].height)
                IN r.state = state /\ r.scrollTop = scrollTop

\* the indexes a measure may carry that are no index of st's list
OutOfRange(st) == {-1} \cup (Len(st.items)..MaxItems)

\* C16: a measure whose index is outside [0, n-1] is never silently clamped
\* to a valid index: it ends in an error, records no height for any item and
\* changes no part of the state.
C16_OutOfRangeThrows ==
    (~error /\ initDone)
    => \A entryIndex \in OutOfRange(state), entryHeight \in Heights :
          LET r == ReduceMeasure(state, scrollTop, edges, entryIndex, entryHeight)
          IN /\ r.threw
             /\ r.state = state
             /\ r.scrollTop = scrollTop

\* a row that is not in the list reported a height: the reducer threw and the
\* state holds no height at all
C16_Witness ==
    /\ error /\ last.type = "throw"
    /\ Le(Len(state.items), last.index) /\ Lt(0, last.height)
    /\ Len(state.items) > 0
    /\ DOMAIN state.heightCache = {}

\* rootElRef while no element is attached to it
NoRootEl == [attached |-> FALSE, offsetTop |-> NaN]

\* C17: when the root element reference is not set, an operation that needs
\* window edges fails with an error instead of computing edges with a default
\* offset of zero.
C17_NoRefFailsFast ==
    (~error /\ Len(state.items) > 0)
    => WindowEdgesOf(NoRootEl, scrollTop, InnerHeight, state.listHeight,
                     state.overscanPadding).threw

\* the reducer's result for the measure (entryIndex, entryHeight) applied
\* after the reduction r
ThenMeasure(r, entryIndex, entryHeight) ==
    ReduceMeasure(r.state, r.scrollTop, r.edges, entryIndex, entryHeight)

\* C18: measurement reports for distinct indices can be applied in any order:
\* for any two reports (i, h1) and (j, h2) with i # j applied one after the
\* other to the same state, the resulting heightCache, nailPoints and
\* listHeight are the same for both orders.
C18_MeasuresCommute ==
    (~error /\ initDone)
    => \A i \in 0..(Len(state.items) - 1), j \in 0..(Len(state.items) - 1) :
          \A h1 \in Heights, h2 \in Heights :
             i # j
             => LET ij == ThenMeasure(ReduceMeasure(state, scrollTop, edges, i, h1), j, h2)
                    ji == ThenMeasure(ReduceMeasure(state, scrollTop, edges, j, h2), i, h1)
                IN /\ ~ij.threw /\ ~ji.threw
                   /\ ij.state.heightCache = ji.state.heightCache
                   /\ ij.state.nailPoints = ji.state.nailPoints
                   /\ ij.state.listHeight = ji.state.listHeight

\* two rows of a list have been measured, the later one just now
C18_Witness ==
    /\ ~error /\ last.type = "measure"
    /\ Cardinality(DOMAIN state.heightCache) >= 2
    /\ \A i \in 0..(Len(state.items) - 1) : state.items[i + 1] \in DOMAIN state.heightCache
    /\ Len(state.items) >= 2 /\ last.diff # 0

\* the props-update that passes a new array with the ids, the estimate and the
\* padding the state already has
SameContentUpdate ==
    ReducePropsUpdate(state, scrollTop, edges, state.items, state.estimatedItemHeight,
                      state.overscanPadding)

\* the update leaves nailPoints, listHeight and the visible range as they were
UpdateKeepsTable ==
    (~error /\ initDone /\ Len(state.items) > 0)
    => /\ ~SameContentUpdate.threw
       /\ SameContentUpdate.state.nailPoints = state.nailPoints
       /\ SameContentUpdate.state.listHeight = state.listHeight
       /\ SameContentUpdate.state.isInView = state.isInView
       /\ SameContentUpdate.state.firstIndex = state.firstIndex
       /\ SameContentUpdate.state.lastIndex = state.lastIndex

\* the table the update writes is the one rebuilt for the same items, cache
\* and estimate over any other previous table, such as one that starts at 0
UpdateIgnoresPreviousTable ==
    (~error /\ initDone /\ Len(state.items) > 0)
    => LET other == RebuildNailPoints(0, <<0>>, state.items, state.heightCache,
                                      state.estimatedItemHeight)
       IN /\ SameContentUpdate.state.nailPoints = other.nailPoints
          /\ SameContentUpdate.state.listHeight = other.listHeight

\* C19: rebuilding the position table from the same items and the same
\* heightCache twice yields identical nailPoints and listHeight: a props-update
\* that supplies a new array with the same item ids (and the same estimate and
\* cache) produces the same nailPoints, listHeight and visible range as
\* before, independent of the previous table.
C19_RebuildRoundTrip ==
    UpdateKeepsTable /\ UpdateIgnoresPreviousTable

\* handleResize calls onMeasure for no report of block size 0 and once, with
\* the row's index and the reported height, for any other
OneCallPerReport ==
    \A itemIndex \in 0..(MaxItems - 1), height \in Reports :
       LET calls == HandleResizeCalls(itemIndex, height)
       IN /\ height = 0 => calls = <<>>
          /\ height # 0 => calls = <<[index |-> itemIndex, height |-> height]>>

\* a step in which a report reached the reducer carries a non-zero height and
\* is one reduction of that measure; a dropped report changes nothing
ReportsAreReducedOnce ==
    /\ last'.type \in {"measure", "same"}
          => /\ last'.height # 0
             /\ LET r == ReduceMeasure(state, scrollTop, edges, last'.index, last'.height)
                IN state' = r.state /\ scrollTop' = r.scrollTop
    /\ last'.type = "ignored" => UNCHANGED <<state, scrollTop, edges, error>>

C21_AttachPriority ==
    /\ row.step.scheduled # "none"
          => /\ ~row.isAlreadyMeasured => row.step.scheduled = "UserBlockingPriority"
             /\ row.isAlreadyMeasured => row.step.scheduled = "LowPriority"
    /\ \A k \in 1..Len(row.tasks) :
          /\ ~row.isAlreadyMeasured => row.tasks[k].priority = "UserBlockingPriority"
          /\ row.isAlreadyMeasured => row.tasks[k].priority = "LowPriority"

\* a measured row has rescheduled its attachment with low priority
C21_Witness ==
    /\ row.mounted /\ row.isAlreadyMeasured /\ row.step.type = "rerender"
    /\ row.step.scheduled = "LowPriority"
    /\ row.tasks = <<[priority |-> "LowPriority", itemIndex |-> row.itemIndex]>>

\* the table of a list none of whose rows was measured
NothingMeasured(st) == DOMAIN st.heightCache = {}

\* C22: whenever disableMeasurment is true no row is measured, so the cache
\* stays empty, and estimatedItemHeight is the height of every item:
\* nailPoints[i] = i * estimatedItemHeight and
\* listHeight = n * estimatedItemHeight, also after scrolls and updates.
C22_DisabledUsesEstimate ==
    (~error /\ NothingMeasured(state))
       => /\ state.nailPoints
                = [i \in 1..Len(state.items) |-> (i - 1) * state.estimatedItemHeight]
          /\ state.listHeight = Len(state.items) * state.estimatedItemHeight

\* a mounted row with measurement disabled has no observer and no attachment
\* waiting; otherwise it has at most one observer, attached or waiting
OneObserverAtMost ==
    /\ (row.mounted /\ row.isMeasurmentDisabled)
          => row.observers = <<>> /\ row.tasks = <<>>
    /\ Len(row.observers) + Len(row.tasks) <= 1

\* enabling measurement schedules one attachment, the scheduled callback of a
\* row whose element holds the ref attaches one observer, and a re-render
\* that keeps itemIndex and isMeasurmentDisabled keeps the attached observer
\* and schedules nothing
AttachesOnce ==
    /\ (row.mounted /\ row'.mounted /\ row.isMeasurmentDisabled
           /\ ~row'.isMeasurmentDisabled)
          => Len(row'.tasks) = 1 /\ row'.observers = <<>>
    /\ (row'.step.type = "task" /\ row.refCurrent)
          => Len(row'.observers) = 1 /\ row'.tasks = <<>>
    /\ (row'.step.type = "rerender" /\ Len(row.observers) = 1
           /\ row'.itemIndex = row.itemIndex
           /\ row'.isMeasurmentDisabled = row.isMeasurmentDisabled)
          => row'.observers = row.observers /\ row'.tasks = <<>>

\* C23: at every moment a mounted row has no size observer attached and none
\* scheduled while measurement is disabled, and at most one otherwise:
\* switching measurement from disabled to enabled attaches one, and
\* re-rendering a row that already has an observer (isAlreadyMeasured flipping
\* to true, say) does not attach a second one.
C23_OneObserver ==
    /\ []OneObserverAtMost
    /\ [][AttachesOnce]_vars

\* a row with its observer attached was re-rendered as measured and still
\* has that one observer
C23_Witness ==
    /\ row.mounted /\ row.step.type = "rerender" /\ row.isAlreadyMeasured
    /\ ~row.isMeasurmentDisabled /\ row.observerCurrent
    /\ Len(row.observers) = 1 /\ row.tasks = <<>>

\* a row that was torn down has no observer and no attachment waiting
TornDownIsSilent ==
    row.unmounted => row.observers = <<>> /\ row.tasks = <<>> /\ ~row.observerCurrent

\* C24: after a row is torn down it never reports a measurement: an
\* attachment that is still only scheduled is cancelled and an attached
\* observer is disconnected, so no later step calls onMeasure for the row.
C24_NoReportAfterTeardown ==
    /\ []TornDownIsSilent
    /\ [][row.unmounted => row'.step.calls = <<>>]_vars

\* the teardown of a row disconnected its attached observer
C24_Witness ==
    /\ row.unmounted /\ row.step.type = "unmount" /\ row.step.disconnected
    /\ row.observers = <<>>

\* the teardown of a row cancelled its scheduled attachment
C24_CancelledWitness ==
    /\ row.unmounted /\ row.step.type = "unmount" /\ row.step.cancelled
    /\ row.tasks = <<>>

\* the rows of st that meet the window e
Meeting(st, e) == {i \in 0..(Len(st.items) - 1) : Intersects(st, e, i)}

\* from every pivot of the list the scan of st under e returns the lowest and
\* the highest row that meet the window
ScanIsExact(st, e) ==
    \A pivot \in 0..(Len(st.items) - 1) :
       LET ix == GetVisibleIndexes(pivot, e, st.nailPoints, st.items, st.heightCache,
                                   st.estimatedItemHeight)
           rows == Meeting(st, e)
       IN /\ rows # {}
          /\ ix.isInView /\ ix.has
          /\ ix.firstIndex = CHOOSE i \in rows : \A j \in rows : i <= j
          /\ ix.lastIndex = CHOOSE i \in rows : \A j \in rows : j <= i

\* a list long enough for a pivot to lie rows away from the window
LongList == 4

\* C25: for a consistent position table and in-view window edges, the
\* bidirectional scan returns the same firstIndex and lastIndex for every
\* pivot in [0, n-1], the minimum and maximum index of the rows that
\* intersect the edges; so a jump from the bottom of the list to the top (a
\* pivot far from the viewport) still yields the exact range.
C25_PivotIndependent ==
    /\ (~error /\ Len(state.items) > 0 /\ TableIsConsistent(state))
          => \A sT \in Scrolls, padding \in Paddings :
                LET e == GetWindowEdges(sT, InnerHeight, state.listHeight,
                                        RootElOffsetTop, padding)
                IN e.isInView => ScanIsExact(state, e)
    /\ LET st == InitialState(Asc(LongList), state.estimatedItemHeight, 0)
       IN \A sT \in 0..st.listHeight :
             LET e == GetWindowEdges(sT, InnerHeight, st.listHeight, RootElOffsetTop, 0)
             IN e.isInView => ScanIsExact(st, e)

\* a scroll of a two-row list with a consistent table left only the second
\* row in the range, which the scan from pivot 0, a row outside the window,
\* finds too
C25_Witness ==
    /\ ~error /\ last.type = "scroll" /\ state.isInView /\ edges.isInView
    /\ Len(state.items) = 2 /\ TableIsConsistent(state)
    /\ ~Intersects(state, edges, 0)
    /\ state.firstIndex = 1 /\ state.lastIndex = 1
    /\ GetVisibleIndexes(0, edges, state.nailPoints, state.items, state.heightCache,
                         state.estimatedItemHeight).firstIndex = 1

\* C26: a measure at index k leaves nailPoints[0..k] exactly as they were and
\* recomputes only nailPoints[k+1..n-1], each the entry before it plus that
\* row's height, and listHeight.
C26_PrefixKept ==
    [][last'.type = "measure"
          => LET k == last'.index
                 n == Len(state'.items)
             IN /\ state'.items = state.items
                /\ \A i \in 0..k :
                      /\ (i < Len(state.nailPoints)) = (i < Len(state'.nailPoints))
                      /\ At(state'.nailPoints, i) = At(state.nailPoints, i)
                /\ \A i \in k..(n - 2) :
                      At(state'.nailPoints, i + 1)
                         = Plus(At(state'.nailPoints, i), HeightOf(state', i))
                /\ state'.listHeight
                      = Plus(At(state'.nailPoints, n - 1), HeightOf(state', n - 1))]_vars

\* a measure of the second row changed its height and so listHeight, and the
\* two entries of the table are in place
C26_Witness ==
    /\ ~error /\ last.type = "measure" /\ last.index = 1 /\ last.diff # 0
    /\ Len(state.items) = 2 /\ TableIsConsistent(state)
    /\ state.nailPoints[2] = HeightOf(state, 0)

\* what the reducer does to scrollTop for each height a rendered row may
\* report, when the row lies below the pivot
BelowPivotKeepsScroll ==
    ~error =>
       \A k \in 1..Len(Render(state)), height \in Heights :
          LET entryIndex == Render(state)[k].itemIndex
              r == ReduceMeasure(state, scrollTop, edges, entryIndex, height)
          IN (~r.threw /\ ~r.same /\ Lt(r.pivotIndex, entryIndex))
                => /\ r.scrollTop = scrollTop
                   /\ r.compensated
                         => Compensation(r.pivotIndex, state.nailPoints,
                                         r.state.nailPoints, state.items,
                                         state.heightCache, r.state.heightCache,
                                         state.estimatedItemHeight) = 0

\* C27: a measure at an index strictly greater than the pivot index never
\* changes the host scroll offset, whether the row grows or shrinks and
\* whether or not the compensation branch is entered (the computed delta is
\* then zero).
C27_BelowPivotNoScroll ==
    /\ []BelowPivotKeepsScroll
    /\ [][(last'.type = "measure" /\ Lt(last'.pivotIndex, last'.index))
            => scrollTop' = scrollTop /\ last'.delta = 0]_vars

\* a measure below the pivot shrank its row, entered the compensation branch
\* and left scrollTop alone
C27_Witness ==
    /\ ~error /\ last.type = "measure" /\ Lt(last.pivotIndex, last.index)
    /\ last.compensated /\ last.diff < 0 /\ last.delta = 0

\* the fields of a state other than isInView, firstIndex and lastIndex
TableOf(st) == <<st.items, st.estimatedItemHeight, st.overscanPadding, st.heightCache,
                 st.nailPoints, st.listHeight>>

\* the visible range of a state
IndexesOf(st) == <<st.isInView, st.firstIndex, st.lastIndex>>

\* C28: a scroll or init action never changes nailPoints, listHeight,
\* heightCache, items, estimatedItemHeight or overscanPadding and never writes
\* the host scroll offset; it can only change isInView, firstIndex and
\* lastIndex, and when those three come out unchanged it returns the
\* identical state object.
C28_ScrollFrame ==
    ~error =>
       \A sT \in Scrolls :
          LET r == ReduceScroll(state, sT, edges)
          IN ~r.threw
                => /\ TableOf(r.state) = TableOf(state)
                   /\ r.scrollTop = sT
                   /\ IndexesOf(r.state) = IndexesOf(state) => r.same

\* Math.max(0, Math.min(value, n - 1)) for a number value
Clamped(value, n) == IF value > n - 1 THEN (IF n - 1 < 0 THEN 0 ELSE n - 1)
                     ELSE IF value < 0 THEN 0 ELSE value

\* an action of a non-empty list computed edges that are not in view
WentOutOfView ==
    /\ last'.type \in Computing /\ Len(state'.items) > 0
    /\ ~edges'.isInView

\* C29: when an action computes window edges that are not in view, isInView
\* becomes false and firstIndex and lastIndex keep the values they had before
\* the action (after clamping into the new list on a props-update); the scan
\* is not run.
C29_OutOfViewKeepsRange ==
    [][WentOutOfView
          => /\ ~state'.isInView
             /\ state'.firstIndex = IF last'.type = "props-update"
                                     THEN Clamped(state.firstIndex, Len(state'.items))
                                     ELSE state.firstIndex
             /\ state'.lastIndex = IF last'.type = "props-update"
                                    THEN Clamped(state.lastIndex, Len(state'.items))
                                    ELSE state.lastIndex
             /\ \A pivot \in 0..(Len(state'.items) - 1) :
                   ~GetVisibleIndexes(pivot, edges', state'.nailPoints, state'.items,
                                      state'.heightCache,
                                      state'.estimatedItemHeight).has]_vars

\* a scroll took the window off a list whose range was the second row, and
\* the range is still the second row
C29_Witness ==
    /\ ~error /\ last.type = "scroll" /\ Len(state.items) = 2
    /\ ~edges.isInView /\ ~state.isInView
    /\ state.firstIndex = 1 /\ state.lastIndex = 1


\* the pivot the claim names for a measure at entryIndex in st: the lowest
\* index of [firstIndex + offset, lastIndex] whose id has a cached height,
\* firstIndex when there is none
NamedPivot(st, entryIndex) ==
    LET offset == IF entryIndex = st.firstIndex THEN 1 ELSE 0
        cached == {i \in (st.firstIndex + offset)..st.lastIndex :
                      st.items[i + 1] \in DOMAIN st.heightCache}
    IN IF cached = {} THEN st.firstIndex
       ELSE CHOOSE i \in cached : \A j \in cached : i <= j

\* the pivot of a measure at entryIndex in st is the named one and lies in
\* the visible range of st
PivotIsNamed(st, entryIndex, pivotIndex) ==
    /\ pivotIndex = NamedPivot(st, entryIndex)
    /\ st.firstIndex <= pivotIndex /\ pivotIndex <= st.lastIndex

\* the pivot the reducer picks for any height a rendered row may report
PivotOfRendered ==
    ~error =>
       \A entryIndex \in RenderedIndexes(state), height \in Heights :
          LET r == ReduceMeasure(state, scrollTop, edges, entryIndex, height)
          IN (~r.threw /\ ~r.same) => PivotIsNamed(state, entryIndex, r.pivotIndex)

\* C30: the pivot used by a measure always lies inside the previous visible
\* range [firstIndex, lastIndex]: it is the lowest index in
\* [firstIndex + offset, lastIndex] whose id already had a cached height
\* before this measure (offset = 1 when the measured index equals firstIndex,
\* else 0), and firstIndex when no such index exists.
C30_PivotInRange ==
    /\ []PivotOfRendered
    /\ [][(last'.type = "measure" /\ last'.index \in RenderedIndexes(state))
            => PivotIsNamed(state, last'.index, last'.pivotIndex)]_vars

\* the first row of the range, itself cached, was measured again and the
\* pivot was the cached row after it
C30_Witness ==
    /\ ~error /\ last.type = "measure" /\ last.index = 0 /\ last.pivotIndex = 1
    /\ DOMAIN state.heightCache = {state.items[1], state.items[2]}
    /\ state.isInView

\* a measure step of the rendered row that is the first of the range
MeasuresFirstRow ==
    /\ last'.type = "measure" /\ last'.index \in RenderedIndexes(state)
    /\ last'.index = state.firstIndex

\* the rows after the first of the range of st that have a cached height
CachedAfterFirst(st) ==
    {i \in (st.firstIndex + 1)..st.lastIndex : st.items[i + 1] \in DOMAIN st.heightCache}

\* C31 as stated: when the row being measured is the current firstIndex, the
\* pivot chosen for scroll anchoring is never that same row.
C31_AsStated ==
    [][MeasuresFirstRow => last'.pivotIndex # last'.index]_vars

\* C31, amended: when the row being measured is the current firstIndex and
\* another row of the visible range already has a cached height, the pivot is
\* not the measured row; when no other row of the range is cached the pivot
\* falls back to firstIndex, the measured row itself.
C31_AnchorNotResized ==
    [][MeasuresFirstRow
          => /\ CachedAfterFirst(state) # {} => last'.pivotIndex # last'.index
             /\ CachedAfterFirst(state) = {} => last'.pivotIndex = last'.index]_vars

\* the first row of the range changed its height and the anchor was the
\* cached row after it
C31_Witness ==
    /\ ~error /\ last.type = "measure" /\ last.index = 0 /\ last.diff # 0
    /\ last.pivotIndex = 1 /\ Len(state.items) = 2
    /\ state.items[2] \in DOMAIN state.heightCache

\* a measure step of a rendered row that entered the compensation branch
CompensatedMeasure ==
    /\ last'.type = "measure" /\ last'.index \in RenderedIndexes(state)
    /\ last'.compensated

\* the rendered rows of st are the last rows of its list
OnlyLastRows(st) ==
    /\ RenderedIndexes(st) # {}
    /\ Len(st.items) - 1 \in RenderedIndexes(st)

\* C32: when a measure of a currently rendered row applies scroll
\* compensation, the pivot row that was visible before the measure is still
\* inside the recomputed visible range afterwards and isInView stays true; in
\* particular, when the only visible rows are the last rows of the list,
\* measuring them leaves the set of rendered rows unchanged.
C32_PivotStaysVisible ==
    [][CompensatedMeasure
          => /\ state'.isInView
             /\ state'.firstIndex <= last'.pivotIndex
             /\ last'.pivotIndex <= state'.lastIndex
             /\ OnlyLastRows(state)
                   => RenderedIndexes(state') = RenderedIndexes(state)]_vars

\* the row of id is rendered
Rendered(id) == row.rows[id].mounted

\* the height of id is in the cache and its row is rendered as measured
Measured(id) ==
    /\ id \in DOMAIN state.heightCache /\ state.heightCache[id] = row.heights[id]
    /\ Rendered(id) => row.rows[id].isAlreadyMeasured

\* a rendered row whose id has a cached height has isAlreadyMeasured = true
MeasuredRowsKnowIt ==
    \A id \in RowIds :
       (Rendered(id) /\ id \in DOMAIN state.heightCache)
          => row.rows[id].isAlreadyMeasured

\* C33: with measurement enabled, every row that stays rendered and has a
\* non-zero height is eventually measured: under fair scheduling its observer
\* is attached, its height is reported, the height is stored in heightCache
\* and the row is from then on rendered with isAlreadyMeasured = true.
C33_EventuallyMeasured ==
    /\ []MeasuredRowsKnowIt
    /\ \A id \in RowIds :
          (Rendered(id) /\ row.heights[id] # 0) ~> (~Rendered(id) \/ Measured(id))

\* the observer of a rendered row has delivered its height, which is in the
\* cache, and the row is rendered as measured
C33_Witness ==
    \E id \in RowIds :
       /\ Rendered(id) /\ id \in row.told /\ row.heights[id] # 0
       /\ row.rows[id].observers # <<>> /\ row.rows[id].isAlreadyMeasured
       /\ id \in DOMAIN state.heightCache /\ state.heightCache[id] = row.heights[id]

\* firstIndex and lastIndex of st are integers within the list, in order
IndexesInRange(st) ==
    /\ ~IsNaN(st.firstIndex) /\ ~IsNaN(st.lastIndex)
    /\ 0 <= st.firstIndex /\ st.firstIndex <= st.lastIndex
    /\ st.lastIndex <= Len(st.items) - 1

\* C34: in every reachable state with a non-empty item list, firstIndex and
\* lastIndex are integers (never NaN) with 0 <= firstIndex <= lastIndex <=
\* n-1; whenever an action computed in-view edges, the scan found at least
\* one intersecting row.
C34_IndexesInRange ==
    (~error /\ Len(state.items) > 0)
       => /\ IndexesInRange(state)
          /\ (last.type \in Computing /\ edges.isInView)
                => \E i \in state.firstIndex..state.lastIndex :
                      Intersects(state, edges, i)

\* the height the table of st gives row i: the distance to the next nail
\* point, or to listHeight for the last row
TableHeight(st, i) ==
    IF i = Len(st.items) - 1 THEN Minus(st.listHeight, At(st.nailPoints, i))
    ELSE Minus(At(st.nailPoints, i + 1), At(st.nailPoints, i))

\* every row of st whose id has a cached height has that height in the table
CachedHeightsInTable(st) ==
    \A i \in 0..(Len(st.items) - 1) :
       IsCached(st.heightCache, st.items[i + 1])
          => StrictEq(TableHeight(st, i), st.heightCache[st.items[i + 1]])

\* C35: only a state-changing measure action modifies heightCache, and it
\* sets exactly the entry of the measured row's id; scroll, init and
\* props-update leave heightCache unchanged and no entry is ever removed, so
\* once an id is measured it stays measured and its cached height is reused
\* by id in every later table rebuild, also after the item list is replaced
\* or reordered. (A table without positions belongs to a list that was
\* mounted empty: none of its rows is ever rendered, so none is measured.)
C35_OnlyMeasureWritesCache ==
    [][/\ DOMAIN state.heightCache \subseteq DOMAIN state'.heightCache
       /\ state'.heightCache # state.heightCache
             => /\ last'.type = "measure"
                /\ state'.heightCache
                      = PutHeight(state.heightCache, state.items[last'.index + 1],
                                  last'.height)
       /\ ~IsNaN(state'.listHeight) => CachedHeightsInTable(state')]_vars

\* a props-update has replaced or reordered the list and a row of the new
\* list has a cached height that differs from the estimate
C35_Witness ==
    /\ last.type = "props-update" /\ ~error
    /\ \E i \in 0..(Len(state.items) - 1) :
          /\ IsCached(state.heightCache, state.items[i + 1])
          /\ state.heightCache[state.items[i + 1]] # state.estimatedItemHeight
          /\ \E j \in 0..(Len(state.items) - 1) : j # i

\* a measure of a rendered row has just changed the state
MeasureOfRenderedRow ==
    ~error' /\ last'.type = "measure" /\ last'.index \in RenderedIndexes(state)

\* C36: a scroll action processed right after a measure action, with no
\* change to the host scroll offset in between other than the measure's own
\* compensation, returns the identical state: the scroll event caused by
\* compensation does not change isInView, firstIndex or lastIndex.
C36_ScrollAfterMeasureBailsOut ==
    [][MeasureOfRenderedRow
          => LET r == ReduceScroll(state', scrollTop', edges')
             IN ~r.threw /\ r.same /\ r.state = state']_vars

\* a measure of a rendered row has moved the host's scroll offset and
\* changed the rendered range
C36_Witness ==
    /\ ~error /\ last.type = "measure" /\ last.compensated /\ last.delta # 0
    /\ state.isInView /\ state.firstIndex # state.lastIndex
    /\ last.index \in state.firstIndex..state.lastIndex

\* C37: scroll compensation is applied at most once per dispatched measure
\* action, however many times and in whatever interleaving with other
\* actions the reducer is re-invoked with that same action object (a double
\* invocation, or a replay of queued actions A, B, A, B).
C37_CompensatesOnce ==
    \A k \in 1..MaxQueue : row.count[k] <= 1

\* C38: a measured height is always recorded under the id of the row it was
\* measured from, also when the item list is replaced (so that the row's
\* index now holds another item) between the observer firing and the
\* measure action being reduced.
C38_RecordedUnderOwnId ==
    [][(row.mounted /\ last'.type = "measure")
          => state'.heightCache
                = PutHeight(state.heightCache, row.id, last'.height)]_vars

\* nothing is left to run: no effect, scroll event, callback or report
Quiescent ==
    /\ ~InitDue /\ ~ScrollEventDue
    /\ \A id \in RowIds : ~TaskDue(id) /\ ~ReportDue(id)

\* a report of the row of id made the reducer return a new state
MeasureChangesState(id) ==
    ReportDue(id) /\ last' = LiveStep("report", id) /\ row'.fresh

\* C39: with fixed true row heights and no further external scroll, resize
\* or prop changes, the system becomes quiescent after finitely many
\* transitions: each row id changes the state through a measure at most once
\* (only while its height is not cached, and cache entries stay), and the
\* feedback loop measure -> scroll compensation -> scroll event -> new rows
\* rendered -> measure cannot continue forever.
C39_BecomesQuiescent ==
    /\ <>[]Quiescent
    /\ [][/\ DOMAIN state.heightCache \subseteq DOMAIN state'.heightCache
          /\ \A id \in RowIds :
                MeasureChangesState(id)
                   => /\ ~IsCached(state.heightCache, id)
                      /\ IsCached(state'.heightCache, id)]_vars

\* the list has come to rest after a compensated measure and its scroll
\* event, with every row's report delivered
C39_Witness ==
    /\ Quiescent /\ ~error /\ last.type = "scroll-event"
    /\ \E id \in RowIds : IsCached(state.heightCache, id)
====
